---- MODULE Spec2Model ----
(***************************************************************************)
(* A model of programs/mavenseed/publish-lessons.py: validation of the     *)
(* lesson files, the remote snapshot cache (with its paginated lesson      *)
(* listing), course resolution, chapter grouping and the reconciliation    *)
(* loop of main.                                                           *)
(*                                                                         *)
(* Text (folder names, file stems, suffixes, chapter titles, lesson slugs) *)
(* is a sequence of one-character strings, so that the regular-expression  *)
(* substitutions and the case conversions are computed character by        *)
(* character.  Course titles, course slugs and the course argument are     *)
(* only ever compared for equality and are plain strings.                  *)
(***************************************************************************)
EXTENDS Integers, Sequences, FiniteSets, TLC

(***************************************************************************)
(* Bounds of the model.                                                    *)
(***************************************************************************)
MaxFiles == 2        \* paths given on the command line
MaxCourses == 2      \* courses the remote API lists
MaxPages == 2        \* lesson pages the remote API can fill
MaxFolderLen == 3    \* characters of a folder name (chapter grouping)

(***************************************************************************)
(* Exit codes.                                                             *)
(***************************************************************************)
ERROR_NO_VALID_LESSON_FILES == 1
ERROR_COURSE_NOT_FOUND == 2
ERROR_CACHE_FILE_EMPTY == 3
EXIT_LIST_COURSES == 0
NoExit == 0 - 1

(***************************************************************************)
(* Characters and text.                                                    *)
(***************************************************************************)
LowerLetters == <<"a", "b", "c", "d", "h", "l", "m", "n", "t", "x", "z">>
UpperLetters == <<"A", "B", "C", "D", "H", "L", "M", "N", "T", "X", "Z">>
Digits == {"0", "1", "2"}

\* str.lower() on one character
LowerChar(c) ==
    IF \E i \in 1..Len(UpperLetters) : UpperLetters[i] = c
    THEN LowerLetters[CHOOSE i \in 1..Len(UpperLetters) : UpperLetters[i] = c]
    ELSE c

\* str.upper() on one character
UpperChar(c) ==
    IF \E i \in 1..Len(LowerLetters) : LowerLetters[i] = c
    THEN UpperLetters[CHOOSE i \in 1..Len(LowerLetters) : LowerLetters[i] = c]
    ELSE c

\* str.lower()
Lower(s) == [i \in 1..Len(s) |-> LowerChar(s[i])]

\* str.replace(" ", "-")
ReplaceSpaces(s) == [i \in 1..Len(s) |-> IF s[i] = " " THEN "-" ELSE s[i]]

\* re.sub(r"[\-._]", " ", s): every '-', '.', '_' becomes a space
SubSeparators(s) ==
    [i \in 1..Len(s) |-> IF s[i] \in {"-", ".", "_"} THEN " " ELSE s[i]]

\* length of the run of digits s starts with
RECURSIVE DigitRun(_)
DigitRun(s) ==
    IF s = <<>> \/ s[1] \notin Digits THEN 0 ELSE 1 + DigitRun(Tail(s))

\* re.sub(r"\d+\.", "", s): every run of digits that a dot follows is removed
\* together with the dot, wherever it stands in s
RECURSIVE SubOrdinal(_)
SubOrdinal(s) ==
    IF s = <<>> THEN <<>>
    ELSE LET n == DigitRun(s) IN
         IF n = 0 THEN <<s[1]>> \o SubOrdinal(Tail(s))
         ELSE IF n < Len(s) /\ s[n + 1] = "."
              THEN SubOrdinal(SubSeq(s, n + 2, Len(s)))
              ELSE SubSeq(s, 1, n) \o SubOrdinal(SubSeq(s, n + 1, Len(s)))

\* str.capitalize(): first character upper-cased, all the others lower-cased
Capitalize(s) ==
    [i \in 1..Len(s) |-> IF i = 1 THEN UpperChar(s[i]) ELSE LowerChar(s[i])]

\* the chapter name main computes from filepath.parent.name
ChapterName(folder) == Capitalize(SubOrdinal(SubSeparators(folder)))

\* the lesson slug main computes from filepath.stem
LessonSlug(stem) == ReplaceSpaces(Lower(stem))

RECURSIVE Flatten(_)
Flatten(ss) == IF ss = <<>> THEN <<>> ELSE Head(ss) \o Flatten(Tail(ss))

(***************************************************************************)
(* A Python dict: the entries in insertion order, the keys unique.         *)
(***************************************************************************)
DictHas(d, k) == \E i \in 1..Len(d) : d[i].key = k

DictGet(d, k) == d[CHOOSE i \in 1..Len(d) : d[i].key = k].value

\* d[k] = v
DictSet(d, k, v) ==
    IF DictHas(d, k)
    THEN [i \in 1..Len(d) |-> IF d[i].key = k THEN [key |-> k, value |-> v] ELSE d[i]]
    ELSE Append(d, [key |-> k, value |-> v])

(***************************************************************************)
(* The local files: the candidate paths and what the file system holds.    *)
(***************************************************************************)
Html == <<".", "h", "t", "m", "l">>
HtmlUpper == <<".", "H", "T", "M", "L">>
Txt == <<".", "t", "x", "t">>

PathA == [folder |-> <<"0", "1", "-", "b">>, stem |-> <<"a">>, suffix |-> Html]
PathBX == [folder |-> <<"0", "1", "_", "b">>, stem |-> <<"B", " ", "x">>, suffix |-> HtmlUpper]
PathCA == [folder |-> <<"c">>, stem |-> <<"a">>, suffix |-> Html]
PathTxt == [folder |-> <<"d">>, stem |-> <<"n">>, suffix |-> Txt]
PathNoH1 == [folder |-> <<"c">>, stem |-> <<"m">>, suffix |-> Html]
PathMissing == [folder |-> <<"c">>, stem |-> <<"z">>, suffix |-> Html]

Paths == {PathA, PathBX, PathCA, PathTxt, PathNoH1, PathMissing}

\* filepath.exists()
FileExists(p) == p # PathMissing

\* re.search(r"<h1>.*</h1>", f.read()) on the content of the file
FileHasHeading(p) == p \in {PathA, PathBX, PathCA, PathTxt}

\* is_valid_file: "raise" is the FileNotFoundError of filepath.open()
IsValidFile(p) ==
    LET is_valid == FileExists(p) /\ Lower(p.suffix) = Html IN
    IF ~FileExists(p) THEN "raise"
    ELSE IF is_valid /\ FileHasHeading(p) THEN "valid" ELSE "invalid"

\* the list comprehension of validate_lesson_files, when no open() raises
ValidateLessonFiles(files) ==
    LET Valid(p) == IsValidFile(p) = "valid" IN SelectSeq(files, Valid)

\* the list comprehension raises at the first path that does not exist
ValidationRaises(files) == \E i \in 1..Len(files) : IsValidFile(files[i]) = "raise"

(***************************************************************************)
(* The remote site: courses, their chapters, and the lessons listing.      *)
(***************************************************************************)
CourseIntro == [id |-> 1, title |-> "Intro", slug |-> "intro-101"]
CourseTwin == [id |-> 2, title |-> "Intro", slug |-> "intro-2"]
CourseClash == [id |-> 3, title |-> "intro-101", slug |-> "basics"]

CourseUniverse == {CourseIntro, CourseTwin, CourseClash}

NoCourse == [id |-> 0, title |-> "", slug |-> ""]

CourseQueries == {"Intro", "intro-101", "intro-2", "none"}

ChapterOf(id, course_id, title) == [id |-> id, course_id |-> course_id, title |-> title]

\* the response of the course_chapters listing for one course
RemoteChapters(course_id) ==
    CASE course_id = 1 -> <<ChapterOf(10, 1, <<"0", "1", " ", "b">>), ChapterOf(11, 1, <<"C">>)>>
      [] course_id = 2 -> <<ChapterOf(20, 2, <<"D">>)>>
      [] OTHER -> <<>>

LessonOf(id, lessonable_id, slug) ==
    [id |-> id, lessonable_id |-> lessonable_id, slug |-> slug, content |-> "body"]

Lesson100 == LessonOf(100, 10, <<"b", "-", "x">>)
Lesson101 == LessonOf(101, 20, <<"a">>)
Lesson102 == LessonOf(102, 11, <<"m">>)

\* what one page of the lessons listing can hold
PageUniverse == {<<>>, <<Lesson100>>, <<Lesson101, Lesson102>>}

\* the remote site holds finitely many lessons: past its last page the listing is empty
PageResponses(page_no) == IF page_no < MaxPages THEN PageUniverse ELSE {<<>>}

\* Lesson.to_dict(): every field but content
LessonToDict(l) == [id |-> l.id, lessonable_id |-> l.lessonable_id, slug |-> l.slug]

\* Lesson(**lessons, content="")
LessonFromDict(d) ==
    [id |-> d.id, lessonable_id |-> d.lessonable_id, slug |-> d.slug, content |-> ""]

\* chapter.to_dict() with the "lessons" key added: the lessons of that chapter
ChapterAsDict(chapter, lessons) ==
    LET InChapter(l) == l.lessonable_id = chapter.id
        mine == SelectSeq(lessons, InChapter)
    IN [id |-> chapter.id, course_id |-> chapter.course_id, title |-> chapter.title,
        lessons |-> [i \in 1..Len(mine) |-> LessonToDict(mine[i])]]

ChapterDicts(chapters, lessons) ==
    [i \in 1..Len(chapters) |-> ChapterAsDict(chapters[i], lessons)]

\* the loop over the courses in cache_all_courses: output[course.title] is
\* reset to [] and filled with the chapters of that course
RECURSIVE BuildOutput(_, _, _)
BuildOutput(output, course_list, lessons) ==
    IF course_list = <<>> THEN output
    ELSE BuildOutput(
             DictSet(output, Head(course_list).title,
                     ChapterDicts(RemoteChapters(Head(course_list).id), lessons)),
             Tail(course_list), lessons)

\* the lessons and the course lists an earlier run may have cached
OldLessons == <<Lesson100, Lesson101, Lesson102>>
OldCourseLists == {<<>>, <<CourseIntro>>, <<CourseTwin, CourseClash>>}

\* the sequences over S, of length at most n
SeqsUpTo(S, n) == UNION {[1..k -> S] : k \in 0..n}

\* the sequences without repetition over S, of length at most n
DistinctSeqs(S, n) ==
    {q \in SeqsUpTo(S, n) : \A i, j \in 1..Len(q) : i # j => q[i] # q[j]}

(***************************************************************************)
(* State.                                                                  *)
(***************************************************************************)
VARIABLES
    args_lesson_files,   \* args.lesson_files
    args_course,         \* args.course
    args_list_courses,   \* args.list_courses
    remote_courses,      \* what the courses listing of the remote site returns
    cache_file,          \* CACHE_FILE: [state: absent | garbage | json, data: dict]
    pc,                  \* position of main
    exit_code,           \* argument of sys.exit, NoExit while running
    error,               \* the exception that ended the run, "" when none
    io_log,              \* the API calls and cache accesses, in order
    cache_was_absent,    \* CACHE_FILE.exists() was false at line 388
    valid_files,         \* main: valid_files
    page,                \* get_all_lessons: page
    requested,           \* get_all_lessons: the page numbers requested, in order
    responses,           \* get_all_lessons: the pages the API returned, in order
    lessons_lists,       \* cache_all_courses: the pages the generator yielded
    cached_data,         \* main: cached_data
    courses,             \* main: courses
    course_to_update,    \* main: course_to_update
    course_chapters,     \* main: course_chapters
    lessons_in_course,   \* main: lessons_in_course
    lessons_map,         \* main: lessons_map, a dict chapter name -> [(slug, path)]
    ci, li,              \* position of the reconciliation loops (li = 0: chapter lookup)
    chapters_to_create,  \* main: chapters_to_create
    lessons_to_create,   \* main: lessons_to_create
    lessons_to_update,   \* main: lessons_to_update
    folder_name,         \* chapter grouping alone: filepath.parent.name
    chapter_name,        \* chapter grouping alone: chapter_name
    norm_pc              \* chapter grouping alone: the next line to run

argv == <<args_lesson_files, args_course, args_list_courses>>
world == <<remote_courses, cache_file>>
ctl == <<pc, exit_code, error>>
hist == <<io_log, cache_was_absent>>
pager == <<page, requested, responses, lessons_lists>>
resolved == <<cached_data, courses, course_to_update, course_chapters, lessons_in_course>>
recon == <<lessons_map, ci, li, chapters_to_create, lessons_to_create, lessons_to_update>>
norm == <<folder_name, chapter_name, norm_pc>>
vars == <<argv, world, ctl, hist, pager, resolved, recon, norm>>

EmptyDict == <<>>

CacheAbsent == [state |-> "absent", data |-> EmptyDict]
CacheGarbage == [state |-> "garbage", data |-> EmptyDict]
CacheJson(d) == [state |-> "json", data |-> d]

InitCaches ==
    {CacheAbsent, CacheGarbage}
        \cup {CacheJson(BuildOutput(EmptyDict, cs, OldLessons)) : cs \in OldCourseLists}

RunInit ==
    /\ pc = "start"
    /\ exit_code = NoExit
    /\ error = ""
    /\ io_log = <<>>
    /\ cache_was_absent = FALSE
    /\ valid_files = <<>>
    /\ page = 0
    /\ requested = <<>>
    /\ responses = <<>>
    /\ lessons_lists = <<>>
    /\ cached_data = EmptyDict
    /\ courses = <<>>
    /\ course_to_update = NoCourse
    /\ course_chapters = <<>>
    /\ lessons_in_course = <<>>
    /\ lessons_map = EmptyDict
    /\ ci = 0
    /\ li = 0
    /\ chapters_to_create = <<>>
    /\ lessons_to_create = <<>>
    /\ lessons_to_update = <<>>

Init ==
    /\ args_lesson_files \in SeqsUpTo(Paths, MaxFiles)
    /\ args_course \in CourseQueries
    /\ args_list_courses \in BOOLEAN
    /\ remote_courses \in DistinctSeqs(CourseUniverse, MaxCourses)
    /\ cache_file \in InitCaches
    /\ RunInit
    /\ folder_name = <<>>
    /\ chapter_name = <<>>
    /\ norm_pc = "idle"

(***************************************************************************)
(* Helpers of main.                                                        *)
(***************************************************************************)
\* Lookups stop at the first element that matches; 0 stands for the None
\* of next(filter(...), None) and for the StopIteration of next(generator).

\* a lookup that compares the title alone
FindCourseByTitle(course_list, query) ==
    LET hits == {i \in 1..Len(course_list) : query = course_list[i].title}
    IN IF hits = {} THEN 0 ELSE CHOOSE i \in hits : \A j \in hits : i <= j

\* next(course for course in courses if args.course in (course.title, course.slug))
FindCourse(course_list, query) ==
    LET hits == {i \in 1..Len(course_list) :
                     query = course_list[i].title \/ query = course_list[i].slug}
    IN IF hits = {} THEN 0 ELSE CHOOSE i \in hits : \A j \in hits : i <= j

\* next(filter(lambda c: c.get("title") == chapter_name, course_chapters), None)
FindChapter(chapter_list, name) ==
    LET hits == {i \in 1..Len(chapter_list) : chapter_list[i].title = name}
    IN IF hits = {} THEN 0 ELSE CHOOSE i \in hits : \A j \in hits : i <= j

\* next(filter(lambda l: l.slug == lesson_slug, lessons_in_course), None)
FindLesson(lesson_list, slug) ==
    LET hits == {i \in 1..Len(lesson_list) : lesson_list[i].slug = slug}
    IN IF hits = {} THEN 0 ELSE CHOOSE i \in hits : \A j \in hits : i <= j

\* the lessons of all the chapters of the course, each rebuilt with content=""
LessonsInCourse(chapter_list) ==
    LET all == Flatten([i \in 1..Len(chapter_list) |-> chapter_list[i].lessons])
    IN [i \in 1..Len(all) |-> LessonFromDict(all[i])]

\* a grouping that starts a new group for every file
LessonsMapAddAlwaysNew(map, filepath) ==
    Append(map, [key |-> ChapterName(filepath.folder),
                 value |-> <<[slug |-> LessonSlug(filepath.stem), filepath |-> filepath]>>])

\* one iteration of the loop that fills lessons_map
LessonsMapAdd(map, filepath) ==
    LET name == ChapterName(filepath.folder)
        base == IF ~DictHas(map, name) \/ DictGet(map, name) = <<>>
                THEN DictSet(map, name, <<>>)
                ELSE map
        item == [slug |-> LessonSlug(filepath.stem), filepath |-> filepath]
    IN DictSet(base, name, Append(DictGet(base, name), item))

RECURSIVE BuildLessonsMap(_, _)
BuildLessonsMap(map, files) ==
    IF files = <<>> THEN map
    ELSE BuildLessonsMap(LessonsMapAdd(map, Head(files)), Tail(files))

\* chapters_to_create after the chapter lookup of one group
ChaptersToCreateAfter(to_create, matching_chapter, name) ==
    IF matching_chapter = 0 THEN Append(to_create, [title |-> name]) ELSE to_create

\* an assignment in the place of the append
LessonsToCreateReplaced(to_create, lesson, slug, filepath) ==
    IF lesson = 0 THEN <<[slug |-> slug, filepath |-> filepath]>> ELSE to_create

\* lessons_to_create after the lesson lookup of one file
LessonsToCreateAfter(to_create, lesson, slug, filepath) ==
    IF lesson = 0 THEN Append(to_create, [slug |-> slug, filepath |-> filepath])
    ELSE to_create

\* a page counter that advances twice a turn
NextPageSkips(page_no) == page_no + 2

\* page += 1
NextPage(page_no) == page_no + 1

\* not CACHE_FILE.exists()
CacheMissing(file) == file.state = "absent"

\* a test that takes only a missing value for empty
CacheEmptyIsNone(data) == FALSE

\* not cached_data
CacheEmpty(data) == Len(data) = 0

Exit(code) == pc' = "exit" /\ exit_code' = code /\ error' = ""
Crash(exception) == pc' = "crashed" /\ error' = exception /\ exit_code' = NoExit
Goto(label) == pc' = label /\ UNCHANGED <<exit_code, error>>

(***************************************************************************)
(* main, lines 375-384: validation.                                        *)
(***************************************************************************)
Validate ==
    /\ pc = "start"
    /\ IF ValidationRaises(args_lesson_files)
       THEN Crash("FileNotFoundError") /\ UNCHANGED valid_files
       ELSE /\ valid_files' = ValidateLessonFiles(args_lesson_files)
            /\ IF Len(valid_files') = 0
               THEN Exit(ERROR_NO_VALID_LESSON_FILES)
               ELSE Goto("check_cache")
    /\ UNCHANGED <<argv, world, hist, pager, resolved, recon, norm>>

(***************************************************************************)
(* main, lines 386-390: log in, then build the cache when it is absent.    *)
(***************************************************************************)
CheckCache ==
    /\ pc = "check_cache"
    /\ cache_was_absent' = CacheMissing(cache_file)
    /\ io_log' = Append(io_log, "login")
    /\ IF CacheMissing(cache_file) THEN Goto("get_lessons") ELSE Goto("read_cache")
    /\ UNCHANGED <<argv, world, valid_files, pager, resolved, recon, norm>>

(***************************************************************************)
(* get_all_lessons, lines 325-337: one turn of the pagination loop.        *)
(***************************************************************************)
GetLessonsPage ==
    /\ pc = "get_lessons"
    /\ \E lessons \in PageResponses(page) :
           /\ requested' = Append(requested, page)
           /\ responses' = Append(responses, lessons)
           /\ io_log' = Append(io_log, "lessons")
           /\ page' = NextPage(page)
           /\ IF lessons = <<>>
              THEN Goto("build_cache") /\ UNCHANGED lessons_lists
              ELSE Goto("get_lessons") /\ lessons_lists' = Append(lessons_lists, lessons)
    /\ UNCHANGED <<argv, world, cache_was_absent, valid_files, resolved, recon, norm>>

(***************************************************************************)
(* cache_all_courses, lines 341-363: join the lessons to the chapters of   *)
(* every course and write the cache file.                                  *)
(***************************************************************************)
BuildCache ==
    /\ pc = "build_cache"
    /\ LET lessons == Flatten(lessons_lists)
           output == BuildOutput(EmptyDict, remote_courses, lessons)
       IN /\ cache_file' = CacheJson(output)
          /\ io_log' = io_log \o <<"courses">>
                          \o [i \in 1..Len(remote_courses) |-> "chapters"]
                          \o <<"write_cache">>
    /\ Goto("read_cache")
    /\ UNCHANGED <<argv, remote_courses, cache_was_absent, valid_files, pager,
                   resolved, recon, norm>>

(***************************************************************************)
(* main, lines 392-397: load the cache and refuse an empty one.            *)
(***************************************************************************)
ReadCache ==
    /\ pc = "read_cache"
    /\ io_log' = Append(io_log, "read_cache")
    /\ IF cache_file.state = "garbage"
       THEN Crash("JSONDecodeError") /\ UNCHANGED cached_data
       ELSE /\ cached_data' = cache_file.data
            /\ IF CacheEmpty(cached_data')
               THEN Exit(ERROR_CACHE_FILE_EMPTY)
               ELSE Goto("get_courses")
    /\ UNCHANGED <<argv, world, cache_was_absent, valid_files, pager, courses,
                   course_to_update, course_chapters, lessons_in_course, recon, norm>>

(***************************************************************************)
(* main, lines 400-404: list the courses of the remote site.               *)
(***************************************************************************)
GetCourses ==
    /\ pc = "get_courses"
    /\ courses' = remote_courses
    /\ io_log' = Append(io_log, "courses")
    /\ IF args_list_courses THEN Exit(EXIT_LIST_COURSES) ELSE Goto("resolve")
    /\ UNCHANGED <<argv, world, cache_was_absent, valid_files, pager, cached_data,
                   course_to_update, course_chapters, lessons_in_course, recon, norm>>

(***************************************************************************)
(* main, lines 406-417: course resolution.                                 *)
(***************************************************************************)
ResolveCourse ==
    /\ pc = "resolve"
    /\ LET found == FindCourse(courses, args_course) IN
       IF found = 0
       THEN Exit(ERROR_COURSE_NOT_FOUND) /\ UNCHANGED course_to_update
       ELSE course_to_update' = courses[found] /\ Goto("load_chapters")
    /\ UNCHANGED <<argv, world, hist, valid_files, pager, cached_data, courses,
                   course_chapters, lessons_in_course, recon, norm>>

(***************************************************************************)
(* main, lines 420-424: the chapters and lessons of the course, from the   *)
(* cache; cached_data[title] raises KeyError when the title is no key.     *)
(***************************************************************************)
LoadChapters ==
    /\ pc = "load_chapters"
    /\ IF ~DictHas(cached_data, course_to_update.title)
       THEN Crash("KeyError") /\ UNCHANGED <<course_chapters, lessons_in_course>>
       ELSE /\ course_chapters' = DictGet(cached_data, course_to_update.title)
            /\ lessons_in_course' = LessonsInCourse(course_chapters')
            /\ Goto("group")
    /\ UNCHANGED <<argv, world, hist, valid_files, pager, cached_data, courses,
                   course_to_update, recon, norm>>

(***************************************************************************)
(* main, lines 427-443: group the paths of args.lesson_files by chapter.   *)
(***************************************************************************)
GroupFiles ==
    /\ pc = "group"
    /\ lessons_map' = BuildLessonsMap(EmptyDict, args_lesson_files)
    /\ ci' = 1
    /\ li' = 0
    /\ Goto("reconcile")
    /\ UNCHANGED <<argv, world, hist, valid_files, pager, resolved,
                   chapters_to_create, lessons_to_create, lessons_to_update, norm>>

(***************************************************************************)
(* main, lines 444-450: the chapter lookup of one group.                   *)
(***************************************************************************)
ReconcileChapter ==
    /\ pc = "reconcile"
    /\ ci \in 1..Len(lessons_map)
    /\ li = 0
    /\ LET name == lessons_map[ci].key
           matching_chapter == FindChapter(course_chapters, name)
       IN chapters_to_create' = ChaptersToCreateAfter(chapters_to_create, matching_chapter, name)
    /\ li' = 1
    /\ UNCHANGED <<argv, world, ctl, hist, valid_files, pager, resolved, lessons_map,
                   ci, lessons_to_create, lessons_to_update, norm>>

(***************************************************************************)
(* main, lines 452-460: the lesson lookup of one file.  A match is a       *)
(* Lesson object, and lesson.get raises AttributeError.                    *)
(***************************************************************************)
ReconcileLesson ==
    /\ pc = "reconcile"
    /\ ci \in 1..Len(lessons_map)
    /\ li \in 1..Len(lessons_map[ci].value)
    /\ LET item == lessons_map[ci].value[li]
           lesson == FindLesson(lessons_in_course, item.slug)
           last_of_group == li = Len(lessons_map[ci].value)
       IN /\ lessons_to_create' =
                 LessonsToCreateAfter(lessons_to_create, lesson, item.slug, item.filepath)
          /\ IF lesson # 0
             THEN Crash("AttributeError") /\ UNCHANGED <<ci, li>>
             ELSE /\ ci' = IF last_of_group THEN ci + 1 ELSE ci
                  /\ li' = IF last_of_group THEN 0 ELSE li + 1
                  /\ IF last_of_group /\ ci = Len(lessons_map)
                     THEN Goto("done")
                     ELSE Goto("reconcile")
    /\ UNCHANGED <<argv, world, hist, valid_files, pager, resolved, lessons_map,
                   chapters_to_create, lessons_to_update, norm>>

Next ==
    \/ Validate
    \/ CheckCache
    \/ GetLessonsPage
    \/ BuildCache
    \/ ReadCache
    \/ GetCourses
    \/ ResolveCourse
    \/ LoadChapters
    \/ GroupFiles
    \/ ReconcileChapter
    \/ ReconcileLesson

Spec == Init /\ [][Next]_vars

(***************************************************************************)
(* Chapter grouping alone (main, lines 429-432), one line per step, on     *)
(* every folder name over NormAlphabet of at most MaxFolderLen characters. *)
(***************************************************************************)
NormAlphabet == {"2", ".", "-", "_", "b", "B"}

NormInit ==
    /\ args_lesson_files = <<>>
    /\ args_course = "none"
    /\ args_list_courses = FALSE
    /\ remote_courses = <<>>
    /\ cache_file = CacheAbsent
    /\ RunInit
    /\ folder_name \in SeqsUpTo(NormAlphabet, MaxFolderLen)
    /\ chapter_name = <<>>
    /\ norm_pc = "parent_name"

NormStep(from, to, value) ==
    /\ norm_pc = from
    /\ norm_pc' = to
    /\ chapter_name' = value
    /\ UNCHANGED <<argv, world, ctl, hist, valid_files, pager, resolved, recon, folder_name>>

NormParentName == NormStep("parent_name", "sub_separators", folder_name)
NormSubSeparators == NormStep("sub_separators", "sub_ordinal", SubSeparators(chapter_name))
NormSubOrdinal == NormStep("sub_ordinal", "capitalize", SubOrdinal(chapter_name))
NormCapitalize == NormStep("capitalize", "named", Capitalize(chapter_name))

NormNext ==
    \/ NormParentName
    \/ NormSubSeparators
    \/ NormSubOrdinal
    \/ NormCapitalize

NormSpec == NormInit /\ [][NormNext]_vars

(***************************************************************************)
(* Properties.                                                             *)
(***************************************************************************)
Range(q) == {q[i] : i \in 1..Len(q)}

\* the run went through course resolution (lines 406-417)
AfterResolve ==
    \/ pc \in {"load_chapters", "group", "reconcile", "done"}
    \/ pc = "crashed" /\ error \in {"KeyError", "AttributeError"}
    \/ pc = "exit" /\ exit_code = ERROR_COURSE_NOT_FOUND

InCreate(p) == \E i \in 1..Len(lessons_to_create) : lessons_to_create[i].filepath = p
InUpdate(p) == \E i \in 1..Len(lessons_to_update) :
                   lessons_to_update[i].slug = LessonSlug(p.stem)

\* C1: when the reconciliation loop has finished, every file that passed
\* validation is in exactly one of lessons_to_create and lessons_to_update.
C1_ExactlyOneList ==
    pc = "done" =>
        \A i \in 1..Len(valid_files) :
            InCreate(valid_files[i]) # InUpdate(valid_files[i])

\* a finished run with two valid files, both classified
C1_Witness ==
    /\ pc = "done"
    /\ Len(valid_files) = 2
    /\ valid_files[1] # valid_files[2]
    /\ InCreate(valid_files[1]) /\ InCreate(valid_files[2])

\* C2: a file whose slug is the slug of a lesson of the course is reconciled
\* to the end, into an entry of lessons_to_update that carries the id of that
\* lesson, and into nothing of lessons_to_create.
C2_MatchedFileIsUpdated ==
    \A i \in 1..Len(args_lesson_files) :
        LET p == args_lesson_files[i]
            hit == FindLesson(lessons_in_course, LessonSlug(p.stem))
        IN (/\ ci >= 1
            /\ pc \in {"done", "crashed"}
            /\ hit # 0)
           => /\ pc = "done"
              /\ \E k \in 1..Len(lessons_to_update) :
                     /\ lessons_to_update[k].slug = LessonSlug(p.stem)
                     /\ lessons_to_update[k].id = lessons_in_course[hit].id
              /\ ~InCreate(p)

ChapterNamesOf(files) == {ChapterName(files[i].folder) : i \in 1..Len(files)}
RemoteTitles == {course_chapters[i].title : i \in 1..Len(course_chapters)}
TitlesToCreate == {chapters_to_create[i].title : i \in 1..Len(chapters_to_create)}

\* C3: after reconciliation chapters_to_create holds one entry for each
\* chapter name of a local file that is the title of no chapter of the course,
\* no other entry, and no name twice.
C3_ChaptersToCreate ==
    pc = "done" =>
        /\ TitlesToCreate = ChapterNamesOf(args_lesson_files) \ RemoteTitles
        /\ Cardinality(TitlesToCreate) = Len(chapters_to_create)

\* a finished run in which two files share a chapter name that is to be created
C3_Witness ==
    /\ pc = "done"
    /\ \E i, j \in 1..Len(args_lesson_files) :
           /\ i # j
           /\ args_lesson_files[i].folder # args_lesson_files[j].folder
           /\ ChapterName(args_lesson_files[i].folder) = ChapterName(args_lesson_files[j].folder)
           /\ ChapterName(args_lesson_files[i].folder) \in TitlesToCreate
    /\ Len(chapters_to_create) = 1

\* the chapter name as section 4.3 words it: the leading "digits + dot"
\* removed, the separators turned into spaces, the first letter capitalized
\* and the other characters left as they are
StripLeadingOrdinal(s) ==
    LET n == DigitRun(s) IN
    IF n > 0 /\ n < Len(s) /\ s[n + 1] = "." THEN SubSeq(s, n + 2, Len(s)) ELSE s

CapitalizeFirst(s) == [i \in 1..Len(s) |-> IF i = 1 THEN UpperChar(s[i]) ELSE s[i]]

WordedChapterName(folder) == CapitalizeFirst(SubSeparators(StripLeadingOrdinal(folder)))

\* C4: the chapter name main computes is the folder name without its leading
\* ordinal, with spaces for the separators and with only the first letter
\* capitalized.
C4_ChapterNameAsWorded ==
    norm_pc = "named" => chapter_name = WordedChapterName(folder_name)

\* C5: in a run with valid and invalid paths that goes on, no invalid path is
\* in lessons_to_create or lessons_to_update, and every chapter to create is
\* the chapter of a valid file.
C5_InvalidFilesExcluded ==
    pc = "done" =>
        /\ \A i \in 1..Len(args_lesson_files) :
               args_lesson_files[i] \notin Range(valid_files)
                   => ~InCreate(args_lesson_files[i]) /\ ~InUpdate(args_lesson_files[i])
        /\ TitlesToCreate \subseteq ChapterNamesOf(valid_files)

\* the three conditions of section 4.1
IsLessonSource(p) == FileExists(p) /\ Lower(p.suffix) = Html /\ FileHasHeading(p)

\* C6: validate_lesson_files returns the paths that exist, end in .html and
\* hold a heading, and leaves the others out without raising.
C6_ValidationFilters ==
    pc # "start" =>
        /\ error # "FileNotFoundError"
        /\ valid_files = SelectSeq(args_lesson_files, IsLessonSource)

MatchingCourses(query) ==
    {i \in 1..Len(courses) : query = courses[i].title \/ query = courses[i].slug}

NothingReconciled ==
    /\ course_to_update = NoCourse
    /\ lessons_map = EmptyDict
    /\ chapters_to_create = <<>>
    /\ lessons_to_create = <<>>
    /\ lessons_to_update = <<>>

FirstMatchOrExit ==
    AfterResolve =>
        LET hits == MatchingCourses(args_course) IN
        /\ hits = {} => pc = "exit" /\ exit_code = ERROR_COURSE_NOT_FOUND /\ NothingReconciled
        /\ hits # {} =>
               /\ pc # "exit"
               /\ \E i \in hits : course_to_update = courses[i] /\ \A j \in hits : i <= j

\* C7 as stated: the first course whose title or slug is the identifier is
\* selected, the slug of any course resolves the course its title resolves,
\* and no match ends the run with ERROR_COURSE_NOT_FOUND and no result.
C7_SlugResolvesAsTitle ==
    /\ FirstMatchOrExit
    /\ \A i \in 1..Len(courses) :
           FindCourse(courses, courses[i].slug) = FindCourse(courses, courses[i].title)

\* no course listed before courses[i] has its title or its slug
NoEarlierClash(i) ==
    \A j \in 1..(i - 1) :
        {courses[j].title, courses[j].slug} \cap {courses[i].title, courses[i].slug} = {}

\* C7, amended: the first course whose title or slug is the identifier is
\* selected; the slug and the title of a course both resolve that course when
\* no course listed before it has its title or its slug for title or slug;
\* and no match ends the run with ERROR_COURSE_NOT_FOUND and no result.
C7_FirstMatchResolution ==
    /\ FirstMatchOrExit
    /\ \A i \in 1..Len(courses) :
           NoEarlierClash(i) =>
               /\ FindCourse(courses, courses[i].slug) = i
               /\ FindCourse(courses, courses[i].title) = i

\* the second course listed is resolved by its slug
C7_Witness ==
    /\ pc = "load_chapters"
    /\ Len(courses) = 2
    /\ course_to_update = courses[2]
    /\ args_course = course_to_update.slug
    /\ args_course # course_to_update.title
    /\ NoEarlierClash(2)

Positions(entry) == {i \in 1..Len(io_log) : io_log[i] = entry}

\* C8: an absent cache is built and written before it is read; a present
\* cache is read with no lessons or chapters listing call; an empty cache
\* ends the run with ERROR_CACHE_FILE_EMPTY before the courses are resolved.
C8_CachePolicy ==
    /\ (cache_was_absent /\ Positions("read_cache") # {}) =>
           /\ cache_file.state = "json"
           /\ \E w \in Positions("write_cache") : \A r \in Positions("read_cache") : w < r
           /\ \A c \in Positions("chapters") \cup Positions("lessons") :
                  \A w \in Positions("write_cache") : c < w
    /\ (Positions("login") # {} /\ ~cache_was_absent) =>
           /\ Positions("lessons") = {}
           /\ Positions("chapters") = {}
           /\ Positions("write_cache") = {}
    /\ (Positions("read_cache") # {} /\ error # "JSONDecodeError") =>
           /\ cached_data = cache_file.data
           /\ Len(cached_data) = 0 =>
                  /\ pc = "exit"
                  /\ exit_code = ERROR_CACHE_FILE_EMPTY
                  /\ courses = <<>>
                  /\ \A r \in Positions("read_cache") : \A c \in Positions("courses") : c < r
                  /\ NothingReconciled
           /\ Len(cached_data) # 0 => exit_code # ERROR_CACHE_FILE_EMPTY
    /\ Positions("read_cache") = {} => exit_code # ERROR_CACHE_FILE_EMPTY

\* an absent cache was built from a site without courses, read back and refused
C8_Witness ==
    /\ cache_was_absent
    /\ Positions("write_cache") # {}
    /\ Positions("read_cache") # {}
    /\ pc = "exit"
    /\ exit_code = ERROR_CACHE_FILE_EMPTY

\* C9: the pages are requested in the order 0, 1, 2, ...; the loop goes on
\* exactly while the pages come back filled, ends within the pages the site
\* can fill plus one, and collects the filled pages in their order.
C9_Pagination ==
    /\ requested = [i \in 1..Len(requested) |-> i - 1]
    /\ Len(responses) = Len(requested)
    /\ \A i \in 1..(Len(responses) - 1) : responses[i] # <<>>
    /\ pc = "get_lessons" =>
           /\ page = Len(requested)
           /\ page <= MaxPages
           /\ lessons_lists = responses
           /\ ENABLED GetLessonsPage
    /\ (pc # "get_lessons" /\ requested # <<>>) =>
           /\ responses[Len(responses)] = <<>>
           /\ lessons_lists = SubSeq(responses, 1, Len(responses) - 1)

\* the loop ended at the third page, after two filled pages
C9_Witness ==
    /\ pc = "build_cache"
    /\ requested = <<0, 1, 2>>
    /\ Len(lessons_lists) = 2
    /\ Len(Flatten(lessons_lists)) >= 3

ChapterKeys(chapter_list) ==
    [i \in 1..Len(chapter_list) |->
        [id |-> chapter_list[i].id, course_id |-> chapter_list[i].course_id,
         title |-> chapter_list[i].title]]

\* C10: once a course is resolved, the snapshot has an entry under its title,
\* the entry is the chapter list of that very course, and the lookup does not
\* fail.
C10_SnapshotHoldsResolvedCourse ==
    (AfterResolve /\ course_to_update # NoCourse) =>
        /\ error # "KeyError"
        /\ DictHas(cached_data, course_to_update.title)
        /\ ChapterKeys(DictGet(cached_data, course_to_update.title))
               = RemoteChapters(course_to_update.id)

====
